---------------------------- MODULE Spec2Model ----------------------------
(***************************************************************************)
(* Verification model of the AYON Google Drive addon                       *)
(* (FuzzkingCool/ayon-googledrive, client/ayon_googledrive).               *)
(*                                                                         *)
(* Several state machines share this module, among them:                   *)
(*   SpecMap - the platform handlers' create_mapping / remove_all_mappings *)
(*             acting on the targets of the configured mappings;           *)
(*   SpecMon - the tray addon's monitor thread and the tray thread that    *)
(*             starts and stops it (tray_start, tray_exit);                *)
(*   SpecRes - source path resolution (find_source_path) over a small      *)
(*             directory tree.                                             *)
(* Every specification leaves the variables of the others unchanged.       *)
(***************************************************************************)
EXTENDS Integers, Sequences, FiniteSets, TLC

VARIABLES
    platform,      \* platform.system(): "Linux", "Darwin" or "Windows"
    srcExists,     \* the source files (inodes) that exist on the mount
    tgt,           \* what is at each mapping target
    perm,          \* may this process create/remove an entry at the target
    keep,          \* settings["keep_symlinks_on_exit"]
    journal,       \* macOS: ayon_gdrive_macos_mappings.json, keyed by mapping
    created,       \* observer: source of the link this process created at t
    call,          \* observer: the latest create_mapping call
    prev,          \* observer: the call before it, if nothing happened between
    rm             \* observer: the latest remove_all_mappings call

mapVars == <<platform, srcExists, tgt, perm, keep, journal, created, call, prev, rm>>

VARIABLES
    monitoring,              \* GDriveAddon._monitoring
    thread,                  \* GDriveAddon._monitor_thread: "none" or "set"
    pcMon,                   \* where the monitor thread is
    pcMain,                  \* where the tray (main) thread is
    ticks,                   \* iterations left of the 1 s sleep loop
    waitLeft,                \* polls left in _wait_for_drive_and_map
    retry_count,             \* local of _monitor_googledrive
    notified_not_installed,  \* local of _monitor_googledrive
    cyc,                     \* observer: the monitor cycle now running or last run
    since,                   \* observer: Degraded cycles since the last Healthy one
    esc,                     \* observer: escalations since the last Healthy cycle
    ini                      \* the auto_restart_googledrive setting and what initialize did

monVars == <<monitoring, thread, pcMon, pcMain, ticks, waitLeft, retry_count,
             notified_not_installed, cyc, since, esc, ini>>

VARIABLES
    fsx,        \* the directories that exist, each a sequence of path segments
    names,      \* what _get_shared_drives_names() returns
    override,   \* WindowsPlatform._shared_drives_path_override (<<>> is None)
    attrs,      \* whether the Windows handler object carries the attributes
                \* shared_drives_names and _shared_drives_path_override
    res         \* observer: the latest resolution

resVars == <<fsx, names, override, attrs, res>>

VARIABLES
    settings,         \* GDrivePlatformBase.settings
    cache,            \* _shared_drives_names_cache
    cache_timestamp,  \* _cache_timestamp
    now,              \* time.time(), in seconds since the handler was built
    loc               \* observer: the latest _get_shared_drives_names() call

locVars == <<settings, cache, cache_timestamp, now, loc>>

VARIABLES
    jpc,      \* where each thread is with respect to the mapping journal
    jname,    \* the mapping a thread is recording
    jlocal,   \* "mappings" of _record_mapping: what the thread read
    jfile,    \* the entries of ayon_gdrive_macos_mappings.json
    jlog      \* observer: the mappings whose _record_mapping call returned

jrnVars == <<jpc, jname, jlocal, jfile, jlog>>

VARIABLES
    mcfg,     \* settings["mappings"]: the configured mappings, in order
    mexists,  \* os.path.exists of the one non-empty target path
    mres      \* observer: the latest manager or monitor operation

mgrVars == <<mcfg, mexists, mres>>

VARIABLES
    wflag,    \* self._monitoring
    wref,     \* self._monitor_thread: 0 is None, else the thread it names
    wpc,      \* where each thread started on _monitor_googledrive is
    wmain     \* the calling thread: "idle" or inside join(timeout=5)

wrkVars == <<wflag, wref, wpc, wmain>>

vars == <<mapVars, monVars, resVars, locVars, jrnVars, mgrVars, wrkVars>>

---------------------------------------------------------------------------
(* The mapping universe.                                                   *)

\* Resolved source paths a caller may pass to create_mapping.
Sources == {"s1", "s2"}

\* Link texts / SUBST destinations.  "s1x" is another path string for the
\* very file "s1" (e.g. /Volumes/GoogleDrive/... versus
\* ~/Library/CloudStorage/GoogleDrive-.../...).
Locations == {"s1", "s1x", "s2"}

\* Targets of the configured mappings (settings["mappings"]); the mapping
\* name is identified with its target.
Targets == {"t1", "t2"}

Inode(l) == IF l = "s1x" THEN "s1" ELSE l

\* os.path.exists(l) for a source-side path.
LocExists(l) == Inode(l) \in srcExists

\* os.path.samefile(a, b); raises (treated as "not same") if one is missing.
SameFile(a, b) == LocExists(a) /\ LocExists(b) /\ Inode(a) = Inode(b)

Absent == [kind |-> "absent", to |-> "-"]
Node == [kind |-> "node", to |-> "-"]
LinkTo(l) == [kind |-> "link", to |-> l]

\* kind "link": a symlink (Linux, macOS) or a SUBST mapping (Windows);
\* kind "node": a real file or directory, or a drive letter used by
\* another volume.
TargetStates == {Absent, Node} \cup {LinkTo(l) : l \in Locations}

\* os.path.lexists(target) / os.path.islink(target) / os.path.exists(target)
LExists(st) == st.kind # "absent"
IsLink(st) == st.kind = "link"
PathExists(st) == st.kind = "node" \/ (st.kind = "link" /\ LocExists(st.to))

NoCall == [valid |-> FALSE, s |-> "-", t |-> "-", pre |-> Absent,
           srcEx |-> FALSE, permOk |-> FALSE, op |-> "-", ret |-> FALSE,
           branch |-> "-", post |-> Absent, changed |-> FALSE,
           recorded |-> FALSE, help |-> "-"]

NoEntry == [source |-> "-", target |-> "-"]

NoRm == [valid |-> FALSE, pre |-> [t \in Targets |-> Absent],
         post |-> [t \in Targets |-> Absent],
         mine |-> [t \in Targets |-> "-"], ret |-> FALSE,
         jpre |-> [t \in Targets |-> NoEntry], raised |-> FALSE]

\* Outcome of one create_mapping call: the value returned, the return site
\* reached, the target afterwards, and the side effects requested.
Outcome(ret, branch, post, record, alert, instr) ==
    [ret |-> ret, branch |-> branch, post |-> post, record |-> record,
     alert |-> alert, instr |-> instr]

NoCycle == [kind |-> "none", probed |-> FALSE, running |-> FALSE,
            mounted |-> FALSE, accessible |-> FALSE, retry |-> 0,
            restart |-> FALSE, escalated |-> FALSE, reconciled |-> FALSE,
            notes |-> {}, raised |-> "-", nrec |-> 0, pnotes |-> {}]

\* The setting as the server hands it out by default (main.py 238-242),
\* with a client that needed no start.
DefaultIni == [auto_restart |-> TRUE, started |-> FALSE]

\* The addon object before tray_start: no monitor thread.
MonFresh ==
    /\ monitoring = FALSE
    /\ thread = "none"
    /\ pcMon = "idle"
    /\ pcMain = "init"
    /\ ticks = 0
    /\ waitLeft = 0
    /\ retry_count = 0
    /\ notified_not_installed = FALSE
    /\ cyc = NoCycle
    /\ since = 0
    /\ esc = 0

MonIdle ==
    /\ MonFresh
    /\ ini = DefaultIni

NoRq == [lead |-> "", sep |-> "/", segs |-> <<>>]

\* no earlier call for the tracked request
NoLast == [valid |-> FALSE, out |-> <<>>, mtab |-> {}]

NoRes == [valid |-> FALSE, by |-> "-", rq |-> NoRq, found |-> FALSE,
          out |-> <<>>, prompted |-> FALSE, nomount |-> FALSE,
          raised |-> FALSE, mtab |-> {}, last |-> NoLast]

\* No path has been resolved.
ResIdle ==
    /\ fsx = {}
    /\ names = <<>>
    /\ override = <<>>
    /\ attrs = FALSE
    /\ res = NoRes

\* settings: what the handler was given, by the shape the provider looks at
NoSettings == [kind |-> "none", list |-> <<>>]

\* _shared_drives_names_cache = None
NoCache == [some |-> FALSE, v |-> <<>>]

NoLoc == [valid |-> FALSE, out |-> <<>>, computed |-> FALSE,
          conf |-> NoSettings, at |-> 0, prevComp |-> -1, compAt |-> -1,
          compConf |-> NoSettings]

\* GDrivePlatformBase.__init__: nothing cached, no call made.
LocIdle ==
    /\ settings = NoSettings
    /\ cache = NoCache
    /\ cache_timestamp = 0
    /\ now = 0
    /\ loc = NoLoc

\* The threads that call ensure_consistent_paths: the monitor thread, the
\* thread _start_googledrive starts for _wait_for_drive_and_map, and the
\* Qt main thread running a menu action.
Workers == {"monitor", "waiter", "ui"}

NoMres == [op |-> "-", failure |-> "-", raised |-> FALSE, value |-> FALSE,
           status |-> "-", touched |-> {}]

\* No mapping is configured and no manager operation has run.
MgrIdle ==
    /\ mcfg = <<>>
    /\ mexists = FALSE
    /\ mres = NoMres

\* The most threads that are started on the monitor loop.
MaxThreads == 3

Threads == 1..MaxThreads

\* No monitor thread has been started.
WrkIdle ==
    /\ wflag = FALSE
    /\ wref = 0
    /\ wpc = [t \in Threads |-> "unborn"]
    /\ wmain = "idle"

\* No thread is reconciling and the journal file holds nothing.
JrnIdle ==
    /\ jpc = [w \in Workers |-> "idle"]
    /\ jname = [w \in Workers |-> "-"]
    /\ jlocal = [w \in Workers |-> {}]
    /\ jfile = {}
    /\ jlog = {}

\* No mapping has been touched.
MapIdle ==
    /\ srcExists = {}
    /\ tgt = [t \in Targets |-> Absent]
    /\ perm = [t \in Targets |-> TRUE]
    /\ keep = FALSE
    /\ journal = [t \in Targets |-> NoEntry]
    /\ created = [t \in Targets |-> "-"]
    /\ call = NoCall
    /\ prev = NoCall
    /\ rm = NoRm

---------------------------------------------------------------------------
(* platforms/linux_generic.py                                              *)

\* A create_mapping that forces the link into place (ln -sfn) when the
\* target holds a symlink to somewhere else.
CM_Linux_Force(s, st, pm) ==
    IF ~LocExists(s)
    THEN Outcome(FALSE, "nosource", st, FALSE, FALSE, FALSE)
    ELSE IF IsLink(st) /\ st.to = s /\ PathExists(st)
    THEN Outcome(TRUE, "already", st, FALSE, FALSE, FALSE)
    ELSE IF st.kind = "node"
    THEN Outcome(FALSE, "conflict", st, FALSE, TRUE, FALSE)
    ELSE IF ~pm
    THEN Outcome(FALSE, "denied", st, FALSE, FALSE, TRUE)
    ELSE Outcome(TRUE, "created", LinkTo(s), FALSE, FALSE, FALSE)

\* A create_mapping that never compares an existing symlink with the
\* source: whatever exists at the target is a conflict.
CM_Linux_NoCompare(s, st, pm) ==
    IF ~LocExists(s)
    THEN Outcome(FALSE, "nosource", st, FALSE, FALSE, FALSE)
    ELSE IF LExists(st)
    THEN Outcome(FALSE, "conflict", st, FALSE, TRUE, FALSE)
    ELSE IF ~pm
    THEN Outcome(FALSE, "denied", st, FALSE, FALSE, TRUE)
    ELSE Outcome(TRUE, "created", LinkTo(s), FALSE, FALSE, FALSE)

\* LinuxPlatform.create_mapping(source_path, target_path, mapping_name).
\* s: the source, st: what is at the target, pm: the process may write the
\* target's parent directory.
CM_Linux(s, st, pm) ==
    IF ~LocExists(s)
    THEN \* "Source path does not exist"
         Outcome(FALSE, "nosource", st, FALSE, FALSE, FALSE)
    ELSE IF PathExists(st)
    THEN IF IsLink(st)
         THEN IF st.to = s
              THEN Outcome(TRUE, "already", st, FALSE, FALSE, FALSE)
              ELSE \* alert_path_in_use(..., "Symlink to ...")
                   Outcome(FALSE, "conflict", st, FALSE, TRUE, FALSE)
         ELSE \* alert_path_in_use(..., "File or directory")
              Outcome(FALSE, "conflict", st, FALSE, TRUE, FALSE)
    ELSE IF LExists(st)
    THEN \* a dangling symlink: os.path.exists is False, os.symlink raises
         \* FileExistsError, caught by "except Exception"
         Outcome(FALSE, "error", st, FALSE, FALSE, FALSE)
    ELSE IF ~pm
    THEN \* PermissionError from os.makedirs or os.symlink:
         \* show_admin_instructions prints the sudo command and returns
         Outcome(FALSE, "denied", st, FALSE, FALSE, TRUE)
    ELSE Outcome(TRUE, "created", LinkTo(s), FALSE, FALSE, FALSE)

\* LinuxPlatform.remove_all_mappings: the target of every configured
\* mapping that exists and is a symlink is unlinked (a failing unlink is
\* logged); always returns True.
RemoveAll_Linux(tg, pm) ==
    [t \in Targets |->
        IF PathExists(tg[t]) /\ IsLink(tg[t]) /\ pm[t] THEN Absent ELSE tg[t]]

---------------------------------------------------------------------------
(* platforms/macos.py                                                      *)

\* MacOSPlatform._paths_point_to_same_content(current_target, expected)
PathsPointToSameContent(a, b) == a = b \/ SameFile(a, b)

\* MacOSPlatform._is_legitimate_gdrive_symlink(target, expected_source) for
\* a symlink with text `cur`.  Its second test compares the two paths
\* relative to a common Google Drive root, which two normalised absolute
\* paths pass only when they are equal.
IsLegitimateGdriveSymlink(cur, s) == PathsPointToSameContent(cur, s) \/ cur = s

\* The check of an existing target that create_mapping makes twice
\* (lines 646-673 without, lines 685-715 with alert_path_in_use).
MacExistingTarget(s, st, withAlert) ==
    IF IsLink(st)
    THEN IF st.to = s \/ IsLegitimateGdriveSymlink(st.to, s)
         THEN Outcome(TRUE, "already", st, TRUE, FALSE, FALSE)
         ELSE Outcome(FALSE, "conflict", st, FALSE, withAlert, FALSE)
    ELSE Outcome(FALSE, "conflict", st, FALSE, withAlert, FALSE)

\* MacOSPlatform.create_mapping(source_path, target_path, mapping_name).
\* op: the operator's answer to the administrator dialog, asked only when
\* the direct os.symlink is refused (EACCES/EPERM/ENOENT).
\* os.readlink of an existing symlink is taken to succeed.
CM_MacOS(s, st, pm, op) ==
    IF LExists(st)
    THEN MacExistingTarget(s, st, FALSE)
    ELSE IF ~LocExists(s)
    THEN Outcome(FALSE, "nosource", st, FALSE, FALSE, FALSE)
    ELSE IF LExists(st)
    THEN MacExistingTarget(s, st, TRUE)
    ELSE IF pm
    THEN Outcome(TRUE, "created", LinkTo(s), TRUE, FALSE, FALSE)
    ELSE IF op = "create"
    THEN \* "mkdir -p ... && ln -sfn ..." with administrator privileges
         Outcome(TRUE, "created", LinkTo(s), TRUE, FALSE, TRUE)
    ELSE IF op = "cancel"
    THEN Outcome(FALSE, "denied", st, FALSE, FALSE, TRUE)
    ELSE Outcome(FALSE, "error", st, FALSE, FALSE, TRUE)

\* MacOSPlatform._record_mapping(name, source, target)
RecordMapping(jr, t, s) == [jr EXCEPT ![t] = [source |-> s, target |-> t]]

\* Which journalled links remove_all_mappings unlinks: every journalled
\* target that is a symlink (the comparison with the recorded source is
\* commented out in the source).
MacUnlinks(jr, tg, t) == jr[t] # NoEntry /\ IsLink(tg[t])

\* os.path.exists(mappings_file): the file is there from the first
\* _record_mapping until _clear_active_mappings_file removes it, that is
\* exactly while it holds an entry.
JournalFileExists(jr) == \E t \in Targets : jr[t] # NoEntry

\* A reader that opens the file without looking whether it is there.
GetActiveMappingsFromFile_NoTest(jr) ==
    IF JournalFileExists(jr)
    THEN [raised |-> FALSE, mappings |-> jr]
    ELSE [raised |-> TRUE, mappings |-> jr]

\* MacOSPlatform._get_active_mappings_from_file: {} when the file is
\* missing, else its entries
GetActiveMappingsFromFile(jr) ==
    IF ~JournalFileExists(jr)
    THEN [raised |-> FALSE, mappings |-> [t \in Targets |-> NoEntry]]
    ELSE [raised |-> FALSE, mappings |-> jr]

\* MacOSPlatform.remove_all_mappings: [tgt, journal, ret, raised]
RemoveAll_MacOS(tg, jr, pm, kp) ==
    IF kp
    THEN [tgt |-> tg, journal |-> jr, ret |-> TRUE, raised |-> FALSE]
    ELSE LET rd == GetActiveMappingsFromFile(jr)
             mappings == rd.mappings
             success_all ==
                 \A t \in Targets : MacUnlinks(mappings, tg, t) => pm[t]
         IN IF rd.raised
            THEN [tgt |-> tg, journal |-> jr, ret |-> FALSE, raised |-> TRUE]
            ELSE IF \A t \in Targets : mappings[t] = NoEntry
            THEN \* "if not mappings: return True"
                 [tgt |-> tg, journal |-> jr, ret |-> TRUE, raised |-> FALSE]
            ELSE [tgt |-> [t \in Targets |->
                             IF MacUnlinks(mappings, tg, t) /\ pm[t]
                             THEN Absent ELSE tg[t]],
                  journal |-> IF success_all
                              THEN [t \in Targets |-> NoEntry] ELSE jr,
                  ret |-> success_all, raised |-> FALSE]

---------------------------------------------------------------------------
(* platforms/windows.py                                                    *)

\* What the probes of a drive letter can answer, given what holds it:
\* acc = os.path.exists("X:\\"), listed = wmic lists the letter,
\* info = the second wmic query names a drive type ("typed"), prints no
\* line for the letter ("none") or cannot be run ("raise").
ProbesFor(st) ==
    IF st.kind = "absent" \/ platform # "Windows"
    THEN {[acc |-> FALSE, listed |-> FALSE, info |-> "none"]}
    ELSE IF st.kind = "link"
    THEN {[acc |-> LocExists(st.to), listed |-> l, info |-> "typed"] :
             l \in BOOLEAN}
    ELSE {[acc |-> a, listed |-> l, info |-> i] :
             a \in BOOLEAN, l \in BOOLEAN, i \in {"typed", "none", "raise"}}

\* "subst X: source" (lines 463-519): SUBST maps a free letter to an
\* existing directory and refuses anything else.
WinSubst(s, st) ==
    IF st.kind = "absent" /\ LocExists(s)
    THEN Outcome(TRUE, "created", LinkTo(s), FALSE, FALSE, FALSE)
    ELSE IF st.kind # "absent"
    THEN \* "Invalid parameter": alert_drive_in_use
         Outcome(FALSE, "conflict", st, FALSE, TRUE, FALSE)
    ELSE Outcome(FALSE, "error", st, FALSE, FALSE, FALSE)

\* WindowsPlatform.create_mapping(source_path, target_path, mapping_name)
CM_Windows(s, st, pr) ==
    LET drive_exists == pr.acc \/ pr.listed IN
    IF drive_exists
    THEN IF IsLink(st)
         THEN IF st.to = s
              THEN Outcome(TRUE, "already", st, FALSE, FALSE, FALSE)
              ELSE Outcome(FALSE, "conflict", st, FALSE, TRUE, FALSE)
         ELSE IF pr.info \in {"typed", "raise"}
              THEN Outcome(FALSE, "conflict", st, FALSE, TRUE, FALSE)
              ELSE WinSubst(s, st)
    ELSE WinSubst(s, st)

\* WindowsPlatform.remove_all_mappings: "subst X: /D" for every line of
\* the SUBST listing; False when the listing cannot be had.
RemoveAll_Windows(tg, listOk) ==
    IF listOk
    THEN [t \in Targets |-> IF IsLink(tg[t]) THEN Absent ELSE tg[t]]
    ELSE tg

---------------------------------------------------------------------------
(* The mapping state machine.                                              *)

DialogAnswers == {"create", "cancel", "error"}

\* The administrator dialog is shown by the macOS handler alone, and only
\* when the process may not write the target's directory.
AnswersFor(t) ==
    IF platform = "Darwin" /\ ~perm[t] THEN DialogAnswers ELSE {"create"}

\* What the handler gives the operator when it turns to them: the Linux
\* handler the command "sudo ln -sf source target" (show_admin_instructions),
\* the macOS handler the Cancel/Create dialog of its AppleScript, which
\* names the two paths and no command.
OperatorHelp(o) ==
    IF ~o.instr THEN "-"
    ELSE IF platform = "Linux" THEN "command"
    ELSE "dialog"

\* The handler the platform factory selects.
CreateOutcome(s, t, op, pr) ==
    IF platform = "Linux" THEN CM_Linux(s, tgt[t], perm[t])
    ELSE IF platform = "Darwin" THEN CM_MacOS(s, tgt[t], perm[t], op)
    ELSE CM_Windows(s, tgt[t], pr)

InitMap ==
    /\ platform \in {"Linux", "Darwin", "Windows"}
    /\ srcExists \in SUBSET Sources
    /\ tgt \in [Targets -> TargetStates]
    /\ perm \in [Targets -> BOOLEAN]
    \* SUBST needs no privilege
    /\ platform = "Windows" => \A t \in Targets : perm[t]
    \* of the handlers, only the macOS one reads keep_symlinks_on_exit
    /\ keep \in BOOLEAN
    \* the macOS journal lives in the temp directory and may survive from
    \* an earlier run of the addon
    /\ \E js \in SUBSET Targets :
          /\ js # {} => platform = "Darwin"
          /\ journal = [t \in Targets |->
                          IF t \in js THEN [source |-> "s1", target |-> t]
                          ELSE NoEntry]
    /\ created = [t \in Targets |-> "-"]
    /\ call = NoCall
    /\ prev = NoCall
    /\ rm = NoRm
    /\ MonIdle
    /\ ResIdle
    /\ LocIdle
    /\ JrnIdle
    /\ MgrIdle
    /\ WrkIdle

\* create_mapping(s, t, name of t)
CreateMapping(s, t, op, pr) ==
    LET o == CreateOutcome(s, t, op, pr) IN
    /\ tgt' = [tgt EXCEPT ![t] = o.post]
    /\ journal' = IF o.record THEN RecordMapping(journal, t, s) ELSE journal
    /\ created' = [created EXCEPT ![t] = IF o.branch = "created" THEN s ELSE @]
    /\ call' = [valid |-> TRUE, s |-> s, t |-> t, pre |-> tgt[t],
                srcEx |-> LocExists(s), permOk |-> perm[t],
                op |-> IF platform = "Darwin" /\ o.instr THEN op ELSE "-",
                ret |-> o.ret, branch |-> o.branch, post |-> o.post,
                changed |-> o.post # tgt[t], recorded |-> o.record,
                help |-> OperatorHelp(o)]
    /\ prev' = call
    /\ rm' = NoRm
    /\ UNCHANGED <<platform, srcExists, perm, keep, monVars, resVars, locVars, jrnVars, mgrVars, wrkVars>>

\* remove_all_mappings() of the selected handler
RemoveAllMappings(listOk) ==
    LET r == IF platform = "Linux"
             THEN [tgt |-> RemoveAll_Linux(tgt, perm), journal |-> journal,
                   ret |-> TRUE, raised |-> FALSE]
             ELSE IF platform = "Darwin"
             THEN RemoveAll_MacOS(tgt, journal, perm, keep)
             ELSE [tgt |-> RemoveAll_Windows(tgt, listOk), journal |-> journal,
                   ret |-> listOk, raised |-> FALSE]
    IN
    /\ tgt' = r.tgt
    /\ journal' = r.journal
    /\ created' = [t \in Targets |-> IF r.tgt[t] # tgt[t] THEN "-" ELSE created[t]]
    /\ rm' = [valid |-> TRUE, pre |-> tgt, post |-> r.tgt, mine |-> created,
              ret |-> r.ret, jpre |-> journal, raised |-> r.raised]
    /\ call' = NoCall
    /\ prev' = NoCall
    /\ UNCHANGED <<platform, srcExists, perm, keep, monVars, resVars, locVars, jrnVars, mgrVars, wrkVars>>

\* Somebody else changes what is at a target.
EnvTarget(t, st) ==
    /\ st # tgt[t]
    /\ tgt' = [tgt EXCEPT ![t] = st]
    /\ created' = [created EXCEPT ![t] = "-"]
    /\ call' = NoCall
    /\ prev' = NoCall
    /\ rm' = NoRm
    /\ UNCHANGED <<platform, srcExists, perm, keep, journal, monVars, resVars, locVars, jrnVars, mgrVars, wrkVars>>

\* A source folder appears on, or disappears from, the Google Drive mount.
EnvSource(f) ==
    /\ srcExists' = IF f \in srcExists THEN srcExists \ {f} ELSE srcExists \cup {f}
    /\ call' = NoCall
    /\ prev' = NoCall
    /\ rm' = NoRm
    /\ UNCHANGED <<platform, tgt, perm, keep, journal, created, monVars, resVars, locVars, jrnVars, mgrVars, wrkVars>>

NextMap ==
    \/ \E s \in Sources, t \in Targets :
          \E op \in AnswersFor(t), pr \in ProbesFor(tgt[t]) :
             CreateMapping(s, t, op, pr)
    \/ \E listOk \in BOOLEAN : RemoveAllMappings(listOk)
    \/ \E t \in Targets, st \in TargetStates : EnvTarget(t, st)
    \/ \E f \in Sources : EnvSource(f)

SpecMap == InitMap /\ [][NextMap]_vars

---------------------------------------------------------------------------
(* Claims about create_mapping and remove_all_mappings (SpecMap).          *)

\* The target held something else when create_mapping was called: a real
\* file or directory (a drive letter of another volume), or a symlink /
\* SUBST mapping whose text is not the source.
PreUnrelated(c) ==
    c.pre.kind = "node" \/ (c.pre.kind = "link" /\ c.pre.to # c.s)

TwoCalls ==
    /\ prev.valid /\ call.valid
    /\ prev.s = call.s /\ prev.t = call.t
    /\ prev.srcEx /\ prev.pre = Absent

C6_TeardownRemovesOwnLinksOnly ==
    rm.valid =>
        \A t \in Targets :
            rm.post[t] # rm.pre[t] =>
                (rm.mine[t] # "-" /\ rm.pre[t] = LinkTo(rm.mine[t]))

\* C8: when the source does not exist, create_mapping (Linux, macOS)
\* reports failure and neither changes the target nor records a mapping.
C8_MissingSourceLeavesTargetAlone ==
    (call.valid /\ ~call.srcEx /\ platform \in {"Linux", "Darwin"}) =>
        (~call.ret /\ call.post = call.pre /\ ~call.recorded)

\* C16: remove_all_mappings as tray_exit calls it removes the links this
\* process created unless keep_symlinks_on_exit is set, and with the flag
\* set it removes nothing, on every platform.
C16_ShutdownHonoursKeepMappings ==
    rm.valid =>
        /\ keep => rm.post = rm.pre
        /\ ~keep => \A t \in Targets :
                        (rm.mine[t] # "-" /\ rm.pre[t] = LinkTo(rm.mine[t]))
                            => rm.post[t] = Absent

\* C25: a create_mapping call that cannot create the link for lack of
\* privilege (the source exists, the target is free, the process may not
\* write there) either returns False, leaving the target alone and giving
\* the operator the equivalent manual command, or has created the link
\* with privileges the operator confirmed in the dialog.
C25_PermissionFailureReported ==
    (call.valid /\ call.srcEx /\ call.pre = Absent /\ ~call.permOk)
    => /\ call.ret => call.op = "create"
       /\ ~call.ret => (call.help = "command" /\ call.post = call.pre)

\* C26: create_mapping records a mapping in the journal only when the
\* call itself created the link: a link that was at the target before the
\* call is never recorded.
C26_JournalHoldsOwnLinksOnly ==
    (call.valid /\ call.recorded) => call.branch = "created"

\* C24: when the journal file does not exist, remove_all_mappings on macOS
\* reads an empty set of entries: it returns True, raises nothing, removes
\* nothing and leaves the journal missing.
C24_MissingJournalIsEmpty ==
    (rm.valid /\ platform = "Darwin" /\ ~JournalFileExists(rm.jpre))
    => /\ rm.ret /\ ~rm.raised
       /\ rm.post = rm.pre
       /\ ~JournalFileExists(journal)

\* remove_all_mappings has run without a journal file, with the flag
\* keep_symlinks_on_exit unset and a symlink standing at a target
C24_Witness ==
    /\ rm.valid /\ platform = "Darwin" /\ ~keep
    /\ ~JournalFileExists(rm.jpre)
    /\ \E t \in Targets : IsLink(rm.pre[t]) /\ rm.post[t] = rm.pre[t]

---------------------------------------------------------------------------
(* addon.py: the monitor thread (_monitor_googledrive) and the tray thread *)
(* (tray_start, tray_exit).                                                *)
(*                                                                         *)
(* The probes of the manager (is_googledrive_installed, ..._running, the   *)
(* mount test, the test of the mapping targets, is_googledrive_mounted)    *)
(* are inputs of the cycle.  The manager calls the monitor makes           *)
(* (start_googledrive, ensure_consistent_paths) and the notifications it   *)
(* asks for are recorded in cyc.  The menu refresh is not modelled.        *)

check_interval == 30

max_retries == 5

\* "timeout = 60" polls of _wait_for_drive_and_map, one second apart
wait_timeout == 60

\* Bound on the Degraded cycles between two Healthy ones.
MaxSince == 12

\* The monitor calls show_notification(title, message, level=...,
\* unique_id=...).  That is the notification sink of the addon the monitor
\* was written for, which takes the de-duplication key and returns; the
\* older ui/notifications.py has no unique_id parameter.
NotifyRaises == FALSE

\* A retry test that lets one more cycle through before the escalation.
CanRetry_OffByOne(rc) == rc <= max_retries

\* "if retry_count < max_retries"
CanRetry(rc) == rc < max_retries

\* A skip test without "if not drive_mounted: should_skip_restart = True".
ShouldSkipRestart_MountIgnored(process_running, drive_mounted, accessible) ==
    ~process_running /\ ~accessible

\* should_skip_restart, lines 577-587
ShouldSkipRestart(process_running, drive_mounted, accessible) ==
    IF ~drive_mounted THEN TRUE
    ELSE IF ~process_running /\ ~accessible THEN TRUE
    ELSE FALSE

\* What one cycle did: whether it went on to the probes after the
\* installed test (probed) and what they returned, the calls it made
\* (restart: start_googledrive, reconciled: ensure_consistent_paths), the
\* notifications it asked for (notes) and the ones the cycle before it
\* asked for (pnotes), and the call that raised, if one did.
Cycle(kind, probed, r, m, a, restart, escalated, reconciled, notes) ==
    [kind |-> kind, probed |-> probed, running |-> r, mounted |-> m,
     accessible |-> a, retry |-> retry_count, restart |-> restart,
     escalated |-> escalated, reconciled |-> reconciled, notes |-> notes,
     raised |-> "-", nrec |-> IF reconciled THEN 1 ELSE 0,
     pnotes |-> cyc.notes]

\* initialize(settings), lines 59-68: with the setting on, an installed
\* client that is not running is started (_start_googledrive).
Initialize(auto_restart, is_installed, is_running) ==
    [auto_restart |-> auto_restart,
     started |-> auto_restart /\ is_installed /\ ~is_running]

InitMon ==
    /\ platform \in {"Linux", "Darwin", "Windows"}
    /\ MapIdle
    /\ MonFresh
    /\ \E auto_restart \in BOOLEAN, is_installed \in BOOLEAN,
          is_running \in BOOLEAN :
           ini = Initialize(auto_restart, is_installed, is_running)
    /\ ResIdle
    /\ LocIdle
    /\ JrnIdle
    /\ MgrIdle
    /\ WrkIdle

\* tray_start -> _start_monitoring
TrayStart ==
    /\ pcMain = "init"
    /\ IF thread # "none" /\ pcMon \notin {"idle", "done"}
       THEN UNCHANGED <<monitoring, thread, pcMon>>
       ELSE /\ monitoring' = TRUE
            /\ thread' = "set"
            /\ pcMon' = "test"
    /\ pcMain' = "running"
    /\ UNCHANGED <<ticks, waitLeft, retry_count, notified_not_installed,
                   cyc, since, esc, ini, mapVars, resVars, locVars, jrnVars, mgrVars, wrkVars>>

\* tray_exit -> _stop_monitoring, up to the call of join(timeout=5); with
\* no live monitor thread _stop_monitoring runs to its end.
TrayExit ==
    /\ pcMain \in {"init", "running"}
    /\ IF thread # "none" /\ pcMon \notin {"idle", "done"}
       THEN /\ pcMain' = "joining"
            /\ UNCHANGED <<thread, monitoring>>
       ELSE /\ pcMain' = "teardown"
            /\ thread' = "none"
            /\ monitoring' = FALSE
    /\ UNCHANGED <<pcMon, ticks, waitLeft, retry_count,
                   notified_not_installed, cyc, since, esc, ini, mapVars, resVars, locVars, jrnVars, mgrVars, wrkVars>>

\* join(timeout=5) returns - the thread has ended or the five seconds are
\* over - and _stop_monitoring clears the reference and then the flag.
JoinReturns ==
    /\ pcMain = "joining"
    /\ thread' = "none"
    /\ monitoring' = FALSE
    /\ pcMain' = "teardown"
    /\ UNCHANGED <<pcMon, ticks, waitLeft, retry_count,
                   notified_not_installed, cyc, since, esc, ini, mapVars, resVars, locVars, jrnVars, mgrVars, wrkVars>>

\* tray_exit, after _stop_monitoring:
\* platform_handler.remove_all_mappings(); _monitor_thread is None by now,
\* so nothing is joined.
Teardown ==
    /\ pcMain = "teardown"
    /\ pcMain' = "exited"
    /\ UNCHANGED <<monitoring, thread, pcMon, ticks, waitLeft, retry_count,
                   notified_not_installed, cyc, since, esc, ini, mapVars, resVars, locVars, jrnVars, mgrVars, wrkVars>>

\* "while self._monitoring:"
MonTest ==
    /\ pcMon = "test"
    /\ pcMon' = IF monitoring THEN "body" ELSE "done"
    /\ UNCHANGED <<monitoring, thread, pcMain, ticks, waitLeft, retry_count,
                   notified_not_installed, cyc, since, esc, ini, mapVars, resVars, locVars, jrnVars, mgrVars, wrkVars>>

\* "if not notified_not_installed" (line 485): the notification is asked
\* for only while the flag is down.
NotifyOnce_Always(flag) == TRUE

NotifyOnce(flag) == ~flag

\* "if not process_running or not drive_mounted" (line 557); the
\* accessibility of the mapping targets takes no part in the test.
IsDegraded_Targets(process_running, drive_mounted, accessible) ==
    ~process_running \/ ~drive_mounted \/ ~accessible

IsDegraded(process_running, drive_mounted, accessible) ==
    ~process_running \/ ~drive_mounted

\* "retry_count = 0", first statement of the else branch (line 614)
HealthyRetry_Keep(rc) == rc

HealthyRetry(rc) == 0

\* "except Exception as e: log.error(...)" (lines 634-635): the thread goes
\* on to the sleep loop that ends the loop body.
AfterRaise_Exits == "done"

AfterRaise == "sleep"

\* The body of one cycle, lines 479-634, up to the sleep loop or, when the
\* restart is attempted, up to the wait inside _wait_for_drive_and_map.
MonCycle(is_installed, process_running, drive_mounted, targets_ok) ==
    LET accessible == drive_mounted /\ targets_ok IN
    /\ pcMon = "body"
    /\ ~drive_mounted => ~targets_ok
    /\ ~is_installed => (~process_running /\ ~drive_mounted)
    /\ IF ~is_installed
       THEN /\ notified_not_installed' = TRUE
            /\ cyc' = Cycle("notinstalled", FALSE, FALSE, FALSE, FALSE,
                            FALSE, FALSE, FALSE,
                            IF NotifyOnce(notified_not_installed)
                            THEN {"gdrive_not_installed"}
                            ELSE {})
            /\ pcMon' = "sleep"
            /\ ticks' = check_interval
            /\ UNCHANGED <<retry_count, since, esc, waitLeft>>
       ELSE IF IsDegraded(process_running, drive_mounted, accessible)
       THEN /\ since < MaxSince
            /\ notified_not_installed' = FALSE
            /\ IF CanRetry(retry_count)
               THEN IF NotifyRaises
                    THEN \* the TypeError ends the cycle in "except Exception"
                         /\ cyc' = Cycle("degraded", TRUE, process_running,
                                         drive_mounted, accessible, FALSE,
                                         FALSE, FALSE, {})
                         /\ pcMon' = "sleep"
                         /\ ticks' = check_interval
                         /\ UNCHANGED <<retry_count, since, esc, waitLeft>>
                    ELSE IF ShouldSkipRestart(process_running, drive_mounted,
                                              accessible)
                    THEN /\ cyc' = Cycle("degraded", TRUE, process_running,
                                         drive_mounted, accessible, FALSE,
                                         FALSE, FALSE,
                                         {"gdrive_issue_detected"})
                         /\ retry_count' = retry_count + 1
                         /\ since' = since + 1
                         /\ pcMon' = "sleep"
                         /\ ticks' = check_interval
                         /\ UNCHANGED <<esc, waitLeft>>
                    ELSE \* start_googledrive(); _wait_for_drive_and_map()
                         /\ cyc' = Cycle("degraded", TRUE, process_running,
                                         drive_mounted, accessible, TRUE,
                                         FALSE, FALSE,
                                         {"gdrive_issue_detected"})
                         /\ pcMon' = "wait"
                         /\ waitLeft' = wait_timeout
                         /\ UNCHANGED <<retry_count, since, esc, ticks>>
               ELSE /\ cyc' = Cycle("degraded", TRUE, process_running,
                                    drive_mounted, accessible, FALSE, TRUE,
                                    FALSE, {"gdrive_resolve_failed"})
                    /\ retry_count' = 0
                    /\ since' = since + 1
                    /\ esc' = esc + 1
                    /\ pcMon' = "sleep"
                    /\ ticks' = check_interval
                    /\ UNCHANGED waitLeft
       ELSE \* process running and mount present: ensure_consistent_paths()
            /\ notified_not_installed' = FALSE
            /\ cyc' = Cycle("healthy", TRUE, process_running, drive_mounted,
                            accessible, FALSE, FALSE, TRUE, {})
            /\ retry_count' = HealthyRetry(retry_count)
            /\ since' = 0
            /\ esc' = 0
            /\ pcMon' = "sleep"
            /\ ticks' = check_interval
            /\ UNCHANGED waitLeft
    /\ UNCHANGED <<monitoring, thread, pcMain, ini, mapVars, resVars, locVars, jrnVars, mgrVars, wrkVars>>

\* The calls of the cycle that can raise into its "try", by the line of
\* the call: is_googledrive_installed (480), QTimer.singleShot with the
\* "not installed" notification (486), is_googledrive_running (507),
\* show_notification (567, 603), start_googledrive (597) and
\* ensure_consistent_paths (619, 626).  An error in the test of the mapping
\* targets is caught at line 552 and counts as "not accessible".
RaisePoints ==
    {"installed", "notify_not_installed", "running", "notify", "restart",
     "reconcile"}

\* The cycle record of a cycle cut short by the call "at".
Raised(at, probed, r, m, a, restart, reconciled, notes) ==
    [Cycle("error", probed, r, m, a, restart, FALSE, reconciled, notes)
        EXCEPT !.raised = at]

\* One cycle in which the call "at" raises: the statements before the call
\* have run, the ones after it have not, and "except Exception" (line 634)
\* takes over.
MonCycleRaises(at, process_running, drive_mounted, targets_ok) ==
    LET accessible == drive_mounted /\ targets_ok
        degraded == IsDegraded(process_running, drive_mounted, accessible)
    IN
    /\ pcMon = "body"
    /\ ~drive_mounted => ~targets_ok
    /\ at \in {"installed", "notify_not_installed"}
          => (~process_running /\ ~drive_mounted)
    /\ CASE at = "installed" ->
              /\ cyc' = Raised(at, FALSE, FALSE, FALSE, FALSE, FALSE, FALSE,
                               {})
              /\ UNCHANGED <<notified_not_installed, retry_count, since, esc>>
         [] at = "notify_not_installed" ->
              /\ NotifyOnce(notified_not_installed)
              /\ cyc' = Raised(at, FALSE, FALSE, FALSE, FALSE, FALSE, FALSE,
                               {})
              /\ UNCHANGED <<notified_not_installed, retry_count, since, esc>>
         [] at = "running" ->
              /\ ~process_running /\ ~drive_mounted
              /\ notified_not_installed' = FALSE
              /\ cyc' = Raised(at, TRUE, FALSE, FALSE, FALSE, FALSE, FALSE,
                               {})
              /\ UNCHANGED <<retry_count, since, esc>>
         [] at = "notify" ->
              /\ degraded
              /\ notified_not_installed' = FALSE
              /\ cyc' = Raised(at, TRUE, process_running, drive_mounted,
                               accessible, FALSE, FALSE, {})
              /\ UNCHANGED <<retry_count, since, esc>>
         [] at = "restart" ->
              /\ degraded
              /\ CanRetry(retry_count)
              /\ ~NotifyRaises
              /\ ~ShouldSkipRestart(process_running, drive_mounted,
                                    accessible)
              /\ notified_not_installed' = FALSE
              /\ cyc' = Raised(at, TRUE, process_running, drive_mounted,
                               accessible, TRUE, FALSE,
                               {"gdrive_issue_detected"})
              /\ UNCHANGED <<retry_count, since, esc>>
         [] at = "reconcile" ->
              /\ ~degraded
              /\ notified_not_installed' = FALSE
              /\ cyc' = Raised(at, TRUE, process_running, drive_mounted,
                               accessible, FALSE, TRUE, {})
              /\ retry_count' = HealthyRetry(retry_count)
              /\ since' = 0
              /\ esc' = 0
    /\ pcMon' = AfterRaise
    /\ ticks' = check_interval
    /\ UNCHANGED <<monitoring, thread, pcMain, waitLeft, ini, mapVars, resVars,
                   locVars, jrnVars, mgrVars, wrkVars>>

\* The wait helper without the "return" that follows its
\* ensure_consistent_paths() call: it polls until the timeout.
WaitEnds_NoReturn(mounted_now, left) == left = 1

\* _wait_for_drive_and_map leaves its loop at the first poll that finds the
\* drive mounted (reconcile, then "return"), or when the timeout is used up.
WaitEnds(mounted_now, left) == mounted_now \/ left = 1

\* One poll of _wait_for_drive_and_map, called from the cycle (line 598):
\* mounted -> ensure_consistent_paths() and return; after the last poll
\* the "Google Drive Mount Issue" notification.  On return the cycle goes
\* on with "retry_count += 1" and the sleep loop.
\* A wait helper that says nothing when its timeout is used up.
WaitNotes_Silent(mounted_now) == {}

\* What the wait helper tells the operator when it ends: nothing after the
\* reconcile, "Google Drive Mount Issue" after the timeout (lines 427-432).
WaitNotes(mounted_now) == IF mounted_now THEN {} ELSE {"mount_issue"}

\* The number of ensure_consistent_paths() calls the cycle has made is
\* kept in cyc.nrec.
MonWaitPoll(mounted_now) ==
    /\ pcMon = "wait"
    /\ IF WaitEnds(mounted_now, waitLeft)
       THEN /\ cyc' = [cyc EXCEPT !.reconciled = @ \/ mounted_now,
                                  !.nrec = IF mounted_now THEN @ + 1 ELSE @,
                                  !.notes = @ \cup WaitNotes(mounted_now)]
            /\ retry_count' = retry_count + 1
            /\ since' = since + 1
            /\ pcMon' = "sleep"
            /\ ticks' = check_interval
            /\ waitLeft' = 0
       ELSE /\ waitLeft' = waitLeft - 1
            /\ cyc' = [cyc EXCEPT !.reconciled = @ \/ mounted_now,
                                  !.nrec = IF mounted_now THEN @ + 1 ELSE @]
            /\ UNCHANGED <<retry_count, since, pcMon, ticks>>
    /\ UNCHANGED <<monitoring, thread, pcMain, notified_not_installed, esc,
                   ini, mapVars, resVars, locVars, jrnVars, mgrVars, wrkVars>>

\* A poll of _wait_for_drive_and_map in which is_googledrive_mounted or
\* ensure_consistent_paths raises (lines 422-424): the error leaves the
\* function and the cycle's "try"; "retry_count += 1" (600) is not reached.
MonWaitRaises ==
    /\ pcMon = "wait"
    /\ cyc' = [cyc EXCEPT !.kind = "error", !.raised = "wait"]
    /\ pcMon' = AfterRaise
    /\ ticks' = check_interval
    /\ waitLeft' = 0
    /\ UNCHANGED <<monitoring, thread, pcMain, retry_count,
                   notified_not_installed, since, esc, ini, mapVars, resVars,
                   locVars, jrnVars, mgrVars, wrkVars>>

\* One iteration of "for _ in range(check_interval)": leave the loop when
\* the flag is off, else sleep one second.
MonSleepTick ==
    /\ pcMon = "sleep"
    /\ IF ~monitoring \/ ticks = 1
       THEN /\ pcMon' = "test"
            /\ ticks' = 0
       ELSE /\ ticks' = ticks - 1
            /\ UNCHANGED pcMon
    /\ UNCHANGED <<monitoring, thread, pcMain, waitLeft, retry_count,
                   notified_not_installed, cyc, since, esc, ini, mapVars, resVars, locVars, jrnVars, mgrVars, wrkVars>>

NextMon ==
    \/ TrayStart
    \/ TrayExit
    \/ JoinReturns
    \/ Teardown
    \/ MonTest
    \/ \E i, r, m, a \in BOOLEAN : MonCycle(i, r, m, a)
    \/ \E at \in RaisePoints : \E r, m, a \in BOOLEAN :
          MonCycleRaises(at, r, m, a)
    \/ \E m \in BOOLEAN : MonWaitPoll(m)
    \/ MonWaitRaises
    \/ MonSleepTick

SpecMon == InitMon /\ [][NextMon]_vars

\* The monitor thread is a running thread: its sleep loop and its loop test
\* are carried out when they are due.
SpecMonLive ==
    SpecMon /\ WF_vars(MonSleepTick) /\ WF_vars(MonTest)

\* One step of the thread that is inside _wait_for_drive_and_map.
MonWaitStep ==
    \/ \E m \in BOOLEAN : MonWaitPoll(m)
    \/ MonWaitRaises

\* The thread inside the wait helper is a running thread: is_googledrive_
\* mounted returns or raises and time.sleep(1) returns.
SpecWaitLive ==
    SpecMon /\ WF_vars(MonWaitStep)

---------------------------------------------------------------------------
(* Claims about the monitor (SpecMon).                                     *)

\* C3: in a cycle that finds the client installed, its process not running
\* and no mount, with the retry bound not reached, the monitor calls
\* start_googledrive.
C3_RestartWhenTrulyDown ==
    (cyc.kind = "degraded" /\ ~cyc.running /\ ~cyc.mounted
        /\ cyc.retry < max_retries)
    => cyc.restart

C7_TeardownAfterMonitorStopped ==
    [][pcMain = "exited" => cyc' = cyc]_vars

\* C17: an error raised by a probe, a reconcile or a notification call
\* inside a monitor cycle does not end the monitor loop: the cycle goes over
\* to the sleep loop, the sleep loop ends in the loop test, the loop test
\* leaves the loop only with the shutdown flag down, and unless that flag
\* is down a further cycle begins.
C17_LoopSurvivesCycleFailures ==
    /\ [][/\ (pcMon \in {"body", "wait"} /\ cyc'.kind = "error"
                 /\ pcMon' # pcMon)
              => (pcMon' = "sleep" /\ ticks' = check_interval)
          /\ (pcMon = "sleep" /\ pcMon' # pcMon) => pcMon' = "test"
          /\ (pcMon = "test" /\ pcMon' # pcMon)
              => pcMon' = (IF monitoring THEN "body" ELSE "done")]_vars
    /\ (cyc.kind = "error" /\ pcMon = "sleep")
          ~> (pcMon = "body" \/ ~monitoring)

\* a further cycle is about to run after a cycle that was cut short by an
\* error, the shutdown flag still up
C17_Witness ==
    /\ cyc.kind = "error" /\ cyc.raised \in RaisePoints \cup {"wait"}
    /\ pcMon = "body" /\ monitoring

\* C18: a cycle whose installed probe is false goes straight to the sleep
\* loop - it calls neither the running probe nor start_googledrive nor
\* ensure_consistent_paths and leaves the retry counter alone - and asks
\* for no notification but the "not installed" one, and not even for that
\* one when the cycle before it was a not-installed cycle too.
C18_NotInstalledCycle ==
    [][(pcMon = "body" /\ pcMon' # pcMon /\ cyc'.kind = "notinstalled")
          => /\ ~cyc'.probed /\ ~cyc'.restart /\ ~cyc'.reconciled
             /\ pcMon' = "sleep"
             /\ retry_count' = retry_count
             /\ cyc'.notes \subseteq {"gdrive_not_installed"}
             /\ cyc.kind = "notinstalled" => cyc'.notes = {}
             /\ notified_not_installed => cyc'.notes = {}]_vars

\* a not-installed cycle that follows a not-installed cycle has run and
\* asked for no notification
C18_Witness ==
    /\ cyc.kind = "notinstalled" /\ cyc.notes = {}
    /\ notified_not_installed /\ pcMon = "sleep"

\* C19: a cycle that finds the client installed, running and mounted calls
\* ensure_consistent_paths and does not call start_googledrive, whether or
\* not the configured mapping targets are in place.
C19_MappingIssueNeverRestarts ==
    (cyc.kind \in {"healthy", "degraded", "error"} /\ cyc.probed
        /\ cyc.running /\ cyc.mounted)
    => (cyc.reconciled /\ ~cyc.restart)

\* a cycle with the client running and mounted and a mapping target
\* missing has reconciled
C19_Witness ==
    /\ cyc.kind = "healthy" /\ cyc.running /\ cyc.mounted
    /\ ~cyc.accessible /\ cyc.reconciled /\ pcMon = "sleep"

ShutdownSignalled == pcMain \in {"joining", "teardown", "exited"}

\* C21: once shutdown has been asked for while the monitor is in its
\* between-cycle sleep, the next one-second test of the flag ends the sleep
\* and the loop, and the monitor starts no further cycle.
C21_BoundedShutdownLatency ==
    /\ [][(ShutdownSignalled /\ pcMon = "sleep"
              /\ <<pcMon, ticks>>' # <<pcMon, ticks>>)
            => pcMon' = "test"]_vars
    /\ []((ShutdownSignalled /\ pcMon = "sleep") => [](pcMon # "body"))

DedupKey(n) == IF n = "mount_issue" THEN "" ELSE n

WaitRan == cyc.restart /\ cyc.raised # "restart" /\ pcMon # "wait"

WaitReconciled ==
    cyc.nrec = 1 /\ "mount_issue" \notin cyc.notes /\ cyc.raised = "-"

WaitTimedOut ==
    cyc.nrec = 0 /\ "mount_issue" \in cyc.notes /\ cyc.raised = "-"

WaitRaised ==
    cyc.nrec = 0 /\ "mount_issue" \notin cyc.notes /\ cyc.raised = "wait"

---------------------------------------------------------------------------
(* Source path resolution: find_source_path of the three handlers and      *)
(* GDriveManager._find_source_path.                                        *)
(*                                                                         *)
(* A path is the sequence of its segments from the filesystem root (on     *)
(* Windows the first segment is the drive).  A logical path is given by    *)
(* its leading separator, the separator it uses and its segments.  A       *)
(* shared-drive folder name occurs in a path only as a whole segment.      *)

SD_EN == "Shared drives"

SD_ALT == "Shared Drives"

SD_DE == "Geteilte Ablagen"

MY_DRIVE == "My Drive"

\* GDrivePlatformBase.default_shared_drives_names, cut down to the names
\* that occur in the directory trees below
default_shared_drives_names == <<SD_EN, SD_ALT, SD_DE>>

\* The places mount discovery looks at, in its order: mount directories
\* (Linux, macOS) or drive letters (Windows).
Roots == << <<"r1">>, <<"r2">> >>

Range(q) == {q[i] : i \in 1..Len(q)}

\* a set of directories together with all their ancestors
PrefixClose(S) == UNION {{SubSeq(q, 1, k) : k \in 1..Len(q)} : q \in S}

\* NTFS matches names without regard to case.
Fold(x) == IF x = SD_ALT THEN SD_EN ELSE x

FoldPath(q) == [i \in 1..Len(q) |-> Fold(q[i])]

\* os.path.exists(q) (every modelled path is a directory)
Exists(q) ==
    IF platform = "Windows"
    THEN \E d \in fsx : FoldPath(d) = FoldPath(q)
    ELSE q \in fsx

RECURSIVE FirstExisting(_)
\* "for path in ...: if os.path.exists(path): return path"; <<>> is None
FirstExisting(ps) ==
    IF ps = <<>> THEN <<>>
    ELSE IF Exists(Head(ps)) THEN Head(ps)
    ELSE FirstExisting(Tail(ps))

RECURSIVE RemoveName(_, _)
\* text.replace(name + "/", "")
RemoveName(segs, v) ==
    IF Len(segs) <= 1 THEN segs
    ELSE IF Head(segs) = v THEN RemoveName(Tail(segs), v)
    ELSE <<Head(segs)>> \o RemoveName(Tail(segs), v)

\* lib.clean_relative_path on POSIX followed by .replace("\\", "/"): a
\* leading "/" is stripped, a leading backslash becomes a leading "/".
LinuxClean(rq) == [abs |-> rq.lead = "\\", segs |-> rq.segs]

\* os.path.join(base, rest): an absolute rest discards the base
PJoin(base, c) == IF c.abs THEN c.segs ELSE base \o c.segs

\* LinuxPlatform.find_googledrive_mount: the first common path that exists
\* and has entries, else the first existing mount point of a Google Drive
\* file system in the output of "mount" (mtab); <<>> is None.
FindGoogledriveMount(mtab) ==
    LET withContent == SelectSeq(Roots, LAMBDA r :
                           Exists(r) /\ \E d \in fsx : Len(d) > 1 /\ d[1] = r[1])
        mounted == SelectSeq(Roots, LAMBDA r : r \in mtab /\ Exists(r))
    IN IF withContent # <<>> THEN Head(withContent)
       ELSE IF mounted # <<>> THEN Head(mounted)
       ELSE <<>>

RECURSIVE LinuxNamePatterns(_, _, _)
\* the patterns the loop over the shared drive names appends (lines 432-438)
LinuxNamePatterns(mount, c, nm) ==
    IF nm = <<>> THEN <<>>
    ELSE LET sd == Head(nm)
             p1 == PJoin(mount \o <<sd>>, [c EXCEPT !.segs = RemoveName(@, sd)])
             p2 == PJoin(mount \o <<sd>>,
                         [c EXCEPT !.segs = RemoveName(@, SD_EN)])
             starts == ~c.abs /\ Len(c.segs) >= 2 /\ c.segs[1] = SD_EN
         IN (IF starts THEN <<p1, p2>> ELSE <<p1>>)
            \o LinuxNamePatterns(mount, c, Tail(nm))

\* LinuxPlatform.find_source_path(relative_path); <<>> is None
LinuxFindSourcePath(rq, mtab) ==
    LET c == LinuxClean(rq)
        mount == FindGoogledriveMount(mtab)
    IN IF mount = <<>> THEN <<>>
       ELSE FirstExisting(
                <<PJoin(mount, c)>>
                \o LinuxNamePatterns(mount, c, names)
                \o <<PJoin(mount, [c EXCEPT !.segs = RemoveName(@, MY_DRIVE)])>>)

\* MacOSPlatform._get_all_gdrive_paths: the Google Drive locations found
MacBasePaths == SelectSeq(Roots, LAMBDA r : Exists(r))

\* MacOSPlatform.find_source_path(relative_path); <<>> is None
MacFindSourcePath(rq) ==
    LET segs == rq.segs
        hits == {i \in 1..Len(segs) : segs[i] \in Range(names)}
    IN IF hits # {}
       THEN LET idx == CHOOSE i \in hits : \A j \in hits : i <= j IN
            IF idx + 1 <= Len(segs)
            THEN LET ok == SelectSeq(MacBasePaths, LAMBDA b :
                               Exists(b \o <<segs[idx]>>)
                               /\ Exists(b \o <<segs[idx], segs[idx + 1]>>))
                 IN IF ok # <<>>
                    THEN Head(ok) \o <<segs[idx], segs[idx + 1]>>
                    ELSE <<>>
            ELSE <<>>
       ELSE FirstExisting([i \in 1..Len(MacBasePaths) |-> MacBasePaths[i] \o segs])

\* Whether segment sequence a is a prefix of b (str.startswith on paths).
IsPrefixSeq(a, b) == Len(a) <= Len(b) /\ SubSeq(b, 1, Len(a)) = a

\* "any(name in clean_path for name in self.shared_drives_names)"
HasSharedName(segs) == \E k \in 1..Len(names) : names[k] \in Range(segs)

\* text.split(v + "\\", 1)[-1]: what follows the first v that has a successor
AfterFirst(segs, v) ==
    LET at == {i \in 1..(Len(segs) - 1) : segs[i] = v}
    IN IF at = {} THEN segs
       ELSE SubSeq(segs, (CHOOSE i \in at : \A j \in at : i <= j) + 1, Len(segs))

RECURSIVE VariantSplit(_, _)
\* the loop of lines 182-189: the first name whose split changes the text
VariantSplit(part, nm) ==
    IF nm = <<>> THEN part
    ELSE IF AfterFirst(part, Head(nm)) # part THEN AfterFirst(part, Head(nm))
    ELSE VariantSplit(part, Tail(nm))

\* drive_name_part (lines 180-189); the splits look for a backslash only
DriveNamePart(rq) ==
    IF rq.sep = "/" THEN rq.segs
    ELSE VariantSplit(AfterFirst(AfterFirst(rq.segs, SD_EN), SD_ALT), names)

RECURSIVE WinBasesOfRoot(_, _, _)
\* the inner loop of lines 209-220 for one drive root
WinBasesOfRoot(root, nm, acc) ==
    IF nm = <<>> THEN acc
    ELSE IF Exists(root \o <<Head(nm)>>)
    THEN LET a1 == Append(acc, root \o <<Head(nm)>>)
             a2 == IF Exists(root \o <<MY_DRIVE>>) /\ root \notin Range(a1)
                   THEN Append(a1, root) ELSE a1
         IN WinBasesOfRoot(root, Tail(nm), a2)
    ELSE WinBasesOfRoot(root, Tail(nm), acc)

RECURSIVE WinFoundBases(_, _)
\* found_drive_bases (lines 200-220)
WinFoundBases(roots, acc) ==
    IF roots = <<>> THEN acc
    ELSE IF ~Exists(Head(roots)) THEN WinFoundBases(Tail(roots), acc)
    ELSE WinFoundBases(Tail(roots), WinBasesOfRoot(Head(roots), names, acc))

\* unique_bases (lines 243-256)
WinUniqueBases(ov, found) ==
    IF ov # <<>> /\ ov \notin Range(found)
       /\ ~\E i \in 1..Len(found) :
              IsPrefixSeq(found[i], ov) \/ IsPrefixSeq(ov, found[i])
    THEN <<ov>> \o found
    ELSE found

\* is_shared_drives_folder_itself (line 262)
IsSharedDrivesFolder(base) ==
    Len(base) >= 2 /\ base[Len(base)] \in Range(names)

RECURSIVE StripFirstName(_, _)
\* lines 267-278: strip the first name that leads the path, or is the path
StripFirstName(segs, nm) ==
    IF nm = <<>> THEN segs
    ELSE IF Len(segs) >= 2 /\ segs[1] = Head(nm) THEN Tail(segs)
    ELSE IF segs = <<Head(nm)>> THEN <<>>
    ELSE StripFirstName(segs, Tail(nm))

RECURSIVE StripNames(_, _)
\* lines 280-284: every name in turn is stripped where it leads the path
StripNames(segs, nm) ==
    IF nm = <<>> THEN segs
    ELSE IF Len(segs) >= 2 /\ segs[1] = Head(nm)
    THEN StripNames(Tail(segs), Tail(nm))
    ELSE StripNames(segs, Tail(nm))

\* what one base yields in the loop of lines 260-309; <<>> is "no hit"
WinTryBase(base, segs) ==
    IF HasSharedName(segs)
    THEN LET item == StripNames(StripFirstName(segs, names), names) IN
         IF IsSharedDrivesFolder(base)
         THEN IF Exists(base \o item) THEN base \o item ELSE <<>>
         ELSE FirstExisting([k \in 1..Len(names) |-> base \o <<names[k]>> \o item])
    ELSE IF ~IsSharedDrivesFolder(base) /\ Exists(base \o segs)
    THEN base \o segs
    ELSE <<>>

RECURSIVE WinSearch(_, _)
WinSearch(bases, segs) ==
    IF bases = <<>> THEN <<>>
    ELSE IF WinTryBase(Head(bases), segs) # <<>> THEN WinTryBase(Head(bases), segs)
    ELSE WinSearch(Tail(bases), segs)

WinAnswer(out, ov, prompted, raised) ==
    [out |-> out, ov |-> ov, prompted |-> prompted, raised |-> raised]

\* WindowsPlatform.find_source_path(relative_path); sel is what the folder
\* prompt of line 225 returns when it is shown (<<>> is cancelled)
WindowsFindSourcePath(rq, sel) ==
    LET segs == rq.segs
        found == WinFoundBases(Roots, <<>>)
    IN IF ~attrs THEN WinAnswer(<<>>, override, FALSE, TRUE)
       ELSE IF HasSharedName(segs) /\ override # <<>>
               /\ Exists(override \o DriveNamePart(rq))
       THEN WinAnswer(override \o DriveNamePart(rq), override, FALSE, FALSE)
       ELSE IF found = <<>> /\ HasSharedName(segs)
       THEN IF sel = <<>> THEN WinAnswer(<<>>, override, TRUE, FALSE)
            ELSE IF Exists(sel \o DriveNamePart(rq))
            THEN WinAnswer(sel \o DriveNamePart(rq), sel, TRUE, FALSE)
            ELSE WinAnswer(WinSearch(WinUniqueBases(sel, found), segs),
                           sel, TRUE, FALSE)
       ELSE IF found = <<>> THEN WinAnswer(<<>>, override, FALSE, FALSE)
       ELSE WinAnswer(WinSearch(WinUniqueBases(override, found), segs),
                      override, FALSE, FALSE)

\* GDriveManager._find_source_path(relative_path): the first base that is
\* there decides, whether or not the path exists under it; <<>> is None
ManagerFindSourcePath(rq) ==
    LET bases == SelectSeq(Roots, LAMBDA r :
                     IF platform = "Windows" THEN Exists(r \o <<SD_EN>>)
                     ELSE Exists(r))
    IN IF bases = <<>> THEN <<>> ELSE Head(bases) \o rq.segs

---------------------------------------------------------------------------
(* The resolution machine: a directory tree, a list of shared drive names  *)
(* and a platform are drawn; then logical paths are resolved.              *)

\* The directories a tree may be built from: each is there with all of its
\* ancestors.  "custom" is a folder an operator may pick in the prompt;
\* <<"Proj">> lies outside every mount.
Leaves ==
    { <<"r1">>, <<"r1", SD_EN, "Proj">>, <<"r1", SD_DE, "Proj">>,
      <<"r1", MY_DRIVE, "Proj">>, <<"r1", "Proj">>, <<"r1", "custom", "Proj">>,
      <<"r2", SD_EN, "Proj">>, <<"Proj">> }

Trees == {PrefixClose(S) : S \in SUBSET Leaves}

\* The logical paths asked for.
Rq(lead, sep, segs) == [lead |-> lead, sep |-> sep, segs |-> segs]

Requests ==
    { Rq("", "/", <<SD_EN, "Proj">>), Rq("/", "/", <<SD_EN, "Proj">>),
      Rq("\\", "\\", <<SD_EN, "Proj">>), Rq("", "/", <<SD_EN, "Proj", "sub">>),
      Rq("", "\\", <<SD_DE, "Proj">>), Rq("", "/", <<MY_DRIVE, "Proj">>),
      Rq("", "/", <<"Proj">>), Rq("\\", "\\", <<"Proj">>),
      Rq("", "/", <<SD_EN>>) }

\* What the folder prompt may return.
Selections == { <<>>, <<"r1", "custom">>, <<"r2">> }

\* What "mount" may list as Google Drive file systems.
MountTables == {{}, {<<"r1">>, <<"r2">>}}

InitRes ==
    /\ platform \in {"Linux", "Darwin", "Windows"}
    /\ fsx \in Trees
    /\ names \in {default_shared_drives_names, <<SD_DE>>}
    /\ override = <<>>
    /\ attrs \in BOOLEAN
    /\ attrs => platform = "Windows"
    /\ res = NoRes
    /\ MapIdle
    /\ MonIdle
    /\ LocIdle
    /\ JrnIdle
    /\ MgrIdle
    /\ WrkIdle

\* The logical path whose successive resolutions are compared.
TrackedRq == Rq("\\", "\\", <<SD_EN, "Proj">>)

\* What the handler returned the last time it resolved TrackedRq.
LastTracked ==
    IF res.valid /\ res.by = "handler" /\ res.rq = TrackedRq
    THEN [valid |-> TRUE, out |-> res.out, mtab |-> res.mtab]
    ELSE res.last

\* platform_handler.find_source_path(rq)
ResolveHandler(rq, mtab, sel) ==
    /\ mtab # {} => platform = "Linux"
    /\ sel # <<>> => /\ platform = "Windows" /\ attrs /\ Exists(sel)
                     /\ HasSharedName(rq.segs)
                     /\ WinFoundBases(Roots, <<>>) = <<>>
    /\ LET win == WindowsFindSourcePath(rq, sel)
           out == IF platform = "Linux" THEN LinuxFindSourcePath(rq, mtab)
                  ELSE IF platform = "Darwin" THEN MacFindSourcePath(rq)
                  ELSE win.out
           nomount == IF platform = "Linux" THEN FindGoogledriveMount(mtab) = <<>>
                      ELSE IF platform = "Darwin" THEN MacBasePaths = <<>>
                      ELSE WinFoundBases(Roots, <<>>) = <<>>
       IN /\ res' = [valid |-> TRUE, by |-> "handler", rq |-> rq,
                     found |-> out # <<>>, out |-> out,
                     prompted |-> platform = "Windows" /\ win.prompted,
                     nomount |-> nomount,
                     raised |-> platform = "Windows" /\ win.raised,
                     mtab |-> mtab, last |-> LastTracked]
          /\ override' = IF platform = "Windows" THEN win.ov ELSE override
    /\ UNCHANGED <<fsx, names, attrs, mapVars, monVars, locVars, jrnVars, mgrVars, wrkVars>>

\* GDriveManager._find_source_path(rq)
ResolveManager(rq) ==
    /\ LET out == ManagerFindSourcePath(rq)
       IN res' = [valid |-> TRUE, by |-> "manager", rq |-> rq,
                  found |-> out # <<>>, out |-> out, prompted |-> FALSE,
                  nomount |-> out = <<>>, raised |-> FALSE,
                  mtab |-> {}, last |-> LastTracked]
    /\ UNCHANGED <<fsx, names, override, attrs, mapVars, monVars, locVars, jrnVars, mgrVars, wrkVars>>

NextRes ==
    \/ \E rq \in Requests, mtab \in MountTables, sel \in Selections :
           ResolveHandler(rq, mtab, sel)
    \/ \E rq \in Requests : ResolveManager(rq)

SpecRes == InitRes /\ [][NextRes]_vars

\* C9: every path that source path resolution returns exists on the file
\* system when it is returned (and when nothing exists the result is None).
C9_ResolveReturnsExistingPaths ==
    res.valid /\ res.found => Exists(res.out)

\* C10: when mount discovery finds no root, a handler's resolution of any
\* logical path returns None, raises nothing and probes nothing outside the
\* empty set of roots (it asks for no other folder and uses none).
C10_NoMountResolvesToNone ==
    res.valid /\ res.by = "handler" /\ res.nomount
        => ~res.found /\ ~res.prompted /\ ~res.raised

\* root/candidate_name/remainder for every root and every candidate name,
\* in mount-root order and then in the order of the names
SearchOrder(remainder) ==
    [i \in 1..(Len(Roots) * Len(names)) |->
        Roots[((i - 1) \div Len(names)) + 1]
            \o <<names[((i - 1) % Len(names)) + 1]>> \o remainder]

\* The request names a shared-drives folder first and something under it.
LeadsWithSharedName(rq) ==
    Len(rq.segs) >= 2 /\ rq.segs[1] \in Range(names)

\* C11: for a logical path whose first segment is a shared-drives name, the
\* Linux and macOS handlers return the first existing
\* root/candidate_name/remainder in mount-root order and then in name
\* order, and None only if no such combination exists.
C11_ExhaustiveOrderedSearch ==
    (res.valid /\ res.by = "handler" /\ platform \in {"Linux", "Darwin"}
        /\ LeadsWithSharedName(res.rq))
    => res.out = FirstExisting(SearchOrder(Tail(res.rq.segs)))

\* C12: with a configured list of names that lacks the English default
\* names, a path under a shared-drives folder that is on disk under the
\* English default name is still found by every handler call that returns.
C12_FallbackChain ==
    (res.valid /\ res.by = "handler" /\ ~res.raised
        /\ names # default_shared_drives_names
        /\ SD_EN \notin Range(names)
        /\ LeadsWithSharedName(res.rq)
        /\ \E i \in 1..Len(Roots) :
               Exists(Roots[i] \o <<SD_EN>> \o Tail(res.rq.segs)))
    => res.found

MyDriveCandidates(remainder) ==
    {Roots[i] \o remainder : i \in 1..Len(Roots)}
    \cup {Roots[i] \o <<MY_DRIVE>> \o remainder : i \in 1..Len(Roots)}

\* C32: for a logical path that names no shared-drives folder, a handler
\* tests root/remainder and root/"My Drive"/remainder for every mount root
\* and returns one of them that exists if any exists.
C32_MyDriveStyleResolution ==
    (res.valid /\ res.by = "handler" /\ ~res.raised
        /\ ~HasSharedName(res.rq.segs)
        /\ res.rq.segs[1] \notin Range(default_shared_drives_names)
        /\ \E q \in MyDriveCandidates(res.rq.segs) : Exists(q))
    => (res.found /\ res.out \in MyDriveCandidates(res.rq.segs)
        /\ Exists(res.out))

\* The roots that are there to be found: on Linux a common path with
\* entries or a mount point the system lists, on macOS a Google Drive
\* location that exists.
PlausibleRoots(mtab) ==
    {r \in Range(Roots) :
        /\ Exists(r)
        /\ platform = "Linux" =>
               (r \in mtab \/ \E d \in fsx : Len(d) > 1 /\ d[1] = r[1])}

\* The roots the handler's mount discovery hands to find_source_path.
DiscoveredRoots(mtab) ==
    IF platform = "Linux" THEN {FindGoogledriveMount(mtab)} \ {<<>>}
    ELSE Range(MacBasePaths)

\* C33: mount discovery returns every plausible root, and a logical path
\* that exists under any of them is resolved, not only one under the first
\* root (Linux and macOS handlers; logical paths without a leading separator
\* that name something below the top folder).
C33_AllRootsSearched ==
    (res.valid /\ res.by = "handler" /\ platform \in {"Linux", "Darwin"})
    => /\ PlausibleRoots(res.mtab) \subseteq DiscoveredRoots(res.mtab)
       /\ (res.rq.lead = "" /\ Len(res.rq.segs) >= 2
           /\ \E r \in PlausibleRoots(res.mtab) : Exists(r \o res.rq.segs))
          => res.found

\* What the Linux or macOS handler returns for a logical path.
PosixFindSourcePath(rq, mtab) ==
    IF platform = "Linux" THEN LinuxFindSourcePath(rq, mtab)
    ELSE MacFindSourcePath(rq)

\* C34: on a given platform and file system, logical paths that differ only
\* in leading separators or in the separator they use resolve to the same
\* result (Linux and macOS handlers).
C34_NormalizationInvariance ==
    (res.valid /\ res.by = "handler" /\ platform \in {"Linux", "Darwin"})
    => \A q \in Requests :
           q.segs = res.rq.segs => PosixFindSourcePath(q, res.mtab) = res.out

\* C38: every path the Linux handler's find_source_path returns lies
\* under a mount root that mount discovery found, whatever the logical
\* path starts with.
C38_ResolvedUnderMountRoot ==
    (res.valid /\ res.by = "handler" /\ platform = "Linux" /\ res.found)
    => \E r \in DiscoveredRoots(res.mtab) : IsPrefixSeq(r, res.out)

\* drive_mounted of the monitor cycle (addon.py 508-527): on Windows some
\* drive letter holds "Shared drives", on macOS /Volumes/GoogleDrive is
\* there, on Linux /mnt/google_drive is there (the first of the roots).
MonitorDriveMounted ==
    IF platform = "Windows"
    THEN \E i \in 1..Len(Roots) : Exists(Roots[i] \o <<SD_EN>>)
    ELSE Exists(Roots[1])

\* The client's canonical root: the one fixed location of the POSIX
\* platforms; a Windows drive letter is known by its content only.
IsCanonicalRoot(r) == platform # "Windows" /\ r = Roots[1]

\* A root qualifies as a mount: it exists and holds a shared-drives folder
\* under one of the recognized names, or it is the canonical root.
MountQualifies(r) ==
    /\ Exists(r)
    /\ \/ \E k \in 1..Len(names) : Exists(r \o <<names[k]>>)
       \/ IsCanonicalRoot(r)

\* C36: the monitor treats the drive as mounted exactly when some root
\* qualifies as a mount; a mount whose shared-drives folder has a
\* recognized name other than the English one counts as mounted.
C36_MonitorMountAgreesWithQualification ==
    MonitorDriveMounted <=> \E i \in 1..Len(Roots) : MountQualifies(Roots[i])

\* Whether path q ends with the segments rem.
EndsWith(q, rem) ==
    Len(rem) <= Len(q) /\ SubSeq(q, Len(q) - Len(rem) + 1, Len(q)) = rem

\* C35: when a logical path <shared-drives name>/<drive>/<sub>/... is
\* resolved by the macOS or Windows handler, the returned path ends with
\* the complete remainder of the logical path (all that follows the
\* shared-drives name): no trailing segment is dropped.
C35_FullRemainderPreserved ==
    (res.valid /\ res.by = "handler" /\ platform \in {"Darwin", "Windows"}
        /\ LeadsWithSharedName(res.rq) /\ res.found)
    => EndsWith(res.out, Tail(res.rq.segs))

---------------------------------------------------------------------------
(* platforms/base.py: GDrivePlatformBase._get_shared_drives_names, its      *)
(* cache and clear_shared_drives_cache.                                     *)
(*                                                                          *)
(* settings is given by the shape the provider looks at: kind "none"        *)
(* (None or {}), "nolocalization", "nokey" (no "shared_drive_names"),       *)
(* "notlist", "unreadable" (looking into it raises) or "list", with the     *)
(* items of settings["localization"]["shared_drive_names"].                 *)

_cache_ttl == 300

\* Bound on the time that passes.
MaxNow == 600

\* The seconds that pass between two events.
Delays == {150, 299, 300}

Item(k, v) == [k |-> k, v |-> v]

\* What one item of the configured list contributes (lines 89-105):
\* "names"  a dict whose "shared_drives_names" is a list,
\* "name"   a dict whose "shared_drives_names" is a string,
\* "legacy" a dict with "shared_drives_name", "str" a plain string,
\* anything else ("nokeys", "badnames", "other") contributes nothing.
ItemNames(it) ==
    IF it.k \in {"names", "name", "legacy", "str"} THEN it.v ELSE <<>>

RECURSIVE ExtractNames(_)
\* the loop of lines 87-105
ExtractNames(list) ==
    IF list = <<>> THEN <<>>
    ELSE ItemNames(Head(list)) \o ExtractNames(Tail(list))

\* the names the try block extracts (lines 78-105); <<>> if it gets none
Configured(st) == IF st.kind = "list" THEN ExtractNames(st.list) ELSE <<>>

\* A provider without the fallback to the default list.
Compute_NoFallback(st) == Configured(st)

\* what a call that does not use the cache returns (lines 107-126)
Compute(st) ==
    IF Configured(st) # <<>> THEN Configured(st)
    ELSE default_shared_drives_names

\* A cache that is still good when exactly the TTL has passed.
CacheFresh_Inclusive(age) == age <= _cache_ttl

\* "current_time - self._cache_timestamp < self._cache_ttl"
CacheFresh(age) == age < _cache_ttl

ListSettings(list) == [kind |-> "list", list |-> list]

\* The configurations a handler may be given or edited to.
SettingsValues ==
    { NoSettings,
      [kind |-> "nokey", list |-> <<>>],
      [kind |-> "notlist", list |-> <<>>],
      [kind |-> "unreadable", list |-> <<>>],
      ListSettings(<<>>),
      ListSettings(<<Item("names", <<SD_DE>>)>>),
      ListSettings(<<Item("names", <<SD_EN, SD_ALT>>), Item("names", <<SD_DE>>)>>),
      ListSettings(<<Item("names", <<>>), Item("nokeys", <<>>)>>),
      ListSettings(<<Item("legacy", <<SD_DE>>), Item("str", <<"Custom">>),
                     Item("other", <<>>)>>) }

InitLoc ==
    /\ platform \in {"Linux", "Darwin", "Windows"}
    /\ settings \in SettingsValues
    /\ cache = NoCache
    /\ cache_timestamp = 0
    /\ now = 0
    /\ loc = NoLoc
    /\ MapIdle
    /\ MonIdle
    /\ ResIdle
    /\ JrnIdle
    /\ MgrIdle
    /\ WrkIdle

\* _get_shared_drives_names()
GetSharedDrivesNames ==
    LET hit == cache.some /\ CacheFresh(now - cache_timestamp)
        out == IF hit THEN cache.v ELSE Compute(settings)
    IN /\ cache' = IF hit THEN cache ELSE [some |-> TRUE, v |-> out]
       /\ cache_timestamp' = IF hit THEN cache_timestamp ELSE now
       /\ loc' = [valid |-> TRUE, out |-> out, computed |-> ~hit,
                  conf |-> settings, at |-> now,
                  prevComp |-> loc.compAt,
                  compAt |-> IF hit THEN loc.compAt ELSE now,
                  compConf |-> IF hit THEN loc.compConf ELSE settings]
       /\ UNCHANGED <<settings, now, mapVars, monVars, resVars, jrnVars, mgrVars, wrkVars>>

\* clear_shared_drives_cache()
ClearSharedDrivesCache ==
    /\ cache.some
    /\ cache' = NoCache
    /\ cache_timestamp' = 0
    /\ UNCHANGED <<settings, now, loc, mapVars, monVars, resVars, jrnVars, mgrVars, wrkVars>>

\* The configuration is edited.
EditSettings(v) ==
    /\ v # settings
    /\ settings' = v
    /\ UNCHANGED <<cache, cache_timestamp, now, loc, mapVars, monVars, resVars, jrnVars, mgrVars, wrkVars>>

\* Time passes.
Tick(d) ==
    /\ now + d <= MaxNow
    /\ now' = now + d
    /\ UNCHANGED <<settings, cache, cache_timestamp, loc, mapVars, monVars, resVars, jrnVars, mgrVars, wrkVars>>

NextLoc ==
    \/ GetSharedDrivesNames
    \/ ClearSharedDrivesCache
    \/ \E v \in SettingsValues : EditSettings(v)
    \/ \E d \in Delays : Tick(d)

SpecLoc == InitLoc /\ [][NextLoc]_vars

\* C13, as stated: every call returns the configured names when the
\* configured list is present and non-empty, the default list when the
\* configuration is missing, empty or unreadable, and never an empty list.
C13_LocalePrecedenceAsStated ==
    loc.valid =>
        /\ (loc.conf.kind = "list" /\ loc.conf.list # <<>>)
              => loc.out = ExtractNames(loc.conf.list)
        /\ ~(loc.conf.kind = "list" /\ loc.conf.list # <<>>)
              => loc.out = default_shared_drives_names
        /\ loc.out # <<>>

\* C13, amended: a call that computes (no unexpired memoized list) returns
\* the names extracted from the configured list when at least one name can
\* be extracted, and the default list otherwise - configuration missing,
\* not a list, unreadable, empty, or a list whose items carry no name; a
\* call that does not compute returns the memoized list; the list returned
\* is never empty.
C13_LocalePrecedence ==
    loc.valid =>
        /\ loc.computed =>
              /\ Configured(loc.conf) # <<>> => loc.out = Configured(loc.conf)
              /\ Configured(loc.conf) = <<>>
                    => loc.out = default_shared_drives_names
        /\ ~loc.computed => loc.out = Compute(loc.compConf)
        /\ loc.out # <<>>

C13_Witness ==
    /\ loc.valid /\ loc.computed
    /\ loc.conf.kind = "list" /\ loc.conf.list # <<>>
    /\ Configured(loc.conf) = <<>>
    /\ loc.out = default_shared_drives_names

\* C14, as stated: a call made less than the TTL after the last
\* computation returns the memoized list without reading the
\* configuration; the first call after the TTL has passed computes from
\* the configuration as it is then.
C14_CacheExpiryAsStated ==
    loc.valid =>
        /\ (loc.prevComp >= 0 /\ loc.at - loc.prevComp < _cache_ttl)
              => ~loc.computed
        /\ (loc.prevComp < 0 \/ loc.at - loc.prevComp >= _cache_ttl)
              => (loc.computed /\ loc.out = Compute(loc.conf))

\* C14, amended: unless clear_shared_drives_cache was called since the
\* last computation, a call made less than 300 s after it returns the
\* memoized list; every other call computes from the configuration as it
\* is then.  So the list a call returns was computed from the configuration
\* as it stood less than 300 s before the call.
C14_CacheExpiry ==
    /\ cache.some => (loc.valid /\ cache_timestamp = loc.compAt
                         /\ cache.v = Compute(loc.compConf))
    /\ loc.valid =>
        /\ loc.computed => (loc.compAt = loc.at /\ loc.compConf = loc.conf
                              /\ loc.out = Compute(loc.conf))
        /\ ~loc.computed => (loc.prevComp >= 0 /\ loc.compAt = loc.prevComp
                               /\ loc.at - loc.prevComp < _cache_ttl)
        /\ (loc.prevComp < 0 \/ loc.at - loc.prevComp >= _cache_ttl)
              => loc.computed
        /\ loc.out = Compute(loc.compConf)
        /\ loc.at - loc.compAt < _cache_ttl

\* A call 299 s after the computation, the configuration edited in
\* between: the memoized list is returned.
C14_Witness ==
    /\ loc.valid /\ ~loc.computed
    /\ loc.at - loc.compAt = _cache_ttl - 1
    /\ loc.conf # loc.compConf
    /\ loc.out # Compute(loc.conf)

---------------------------------------------------------------------------
(* The threads that reconcile and the mapping journal (SpecJrn).           *)
(*                                                                         *)
(* ensure_consistent_paths is called by the monitor thread (addon.py 619,  *)
(* 626, and 424 through 598), by the thread _start_googledrive starts for  *)
(* _wait_for_drive_and_map (393-396, 424) and by the Qt main thread in the *)
(* menu actions (126, 341).  A reconcile creates the links of the          *)
(* configured mappings through the platform handler's create_mapping,      *)
(* which on macOS records each link it creates with _record_mapping: read  *)
(* the journal file, add the entry, write the file back.  No lock is taken *)
(* anywhere on that path.                                                  *)

\* the names of the configured mappings
MappingNames == {"m1", "m2"}

InitJrn ==
    /\ platform = "Darwin"
    /\ MapIdle
    /\ MonIdle
    /\ ResIdle
    /\ LocIdle
    /\ JrnIdle
    /\ MgrIdle
    /\ WrkIdle

\* A thread enters ensure_consistent_paths.  The waiter thread is the one
\* _start_googledrive has started; it gets there once the mount is seen.
ReconcileBegin(w) ==
    /\ jpc[w] = "idle"
    /\ jpc' = [jpc EXCEPT ![w] = "reconcile"]
    /\ UNCHANGED <<jname, jlocal, jfile, jlog, mapVars, monVars, resVars,
                   locVars, mgrVars, wrkVars>>

\* _record_mapping, lines 806-813: the thread has created the link of
\* mapping n and loads the journal file into "mappings".
RecordRead(w, n) ==
    /\ jpc[w] = "reconcile"
    /\ jpc' = [jpc EXCEPT ![w] = "loaded"]
    /\ jname' = [jname EXCEPT ![w] = n]
    /\ jlocal' = [jlocal EXCEPT ![w] = jfile]
    /\ UNCHANGED <<jfile, jlog, mapVars, monVars, resVars, locVars, mgrVars, wrkVars>>

\* _record_mapping, lines 815-820: "mappings[name] = ..." and the dump of
\* "mappings" over the file.
RecordWrite(w) ==
    /\ jpc[w] = "loaded"
    /\ jfile' = jlocal[w] \cup {jname[w]}
    /\ jlog' = jlog \cup {jname[w]}
    /\ jpc' = [jpc EXCEPT ![w] = "reconcile"]
    /\ jname' = [jname EXCEPT ![w] = "-"]
    /\ jlocal' = [jlocal EXCEPT ![w] = {}]
    /\ UNCHANGED <<mapVars, monVars, resVars, locVars, mgrVars, wrkVars>>

\* ensure_consistent_paths returns.
ReconcileEnd(w) ==
    /\ jpc[w] = "reconcile"
    /\ jpc' = [jpc EXCEPT ![w] = "idle"]
    /\ UNCHANGED <<jname, jlocal, jfile, jlog, mapVars, monVars, resVars,
                   locVars, mgrVars, wrkVars>>

NextJrn ==
    \/ \E w \in Workers : ReconcileBegin(w)
    \/ \E w \in Workers : \E n \in MappingNames : RecordRead(w, n)
    \/ \E w \in Workers : RecordWrite(w)
    \/ \E w \in Workers : ReconcileEnd(w)

SpecJrn == InitJrn /\ [][NextJrn]_vars

---------------------------------------------------------------------------
(* The configured mappings as the monitor and the manager read them, and   *)
(* the manager's probes (SpecMgr).                                         *)

\* One entry of settings["mappings"]: its source_path and its target under
\* the key of the running platform (windows_target, macos_target or
\* linux_target); "" is an empty or missing value.
MappingConfigs == [source : {"", "src"}, target : {"", "tgt"}]

\* Bound on the number of configured mappings.
MaxMappings == 2

MappingLists == UNION {[1..n -> MappingConfigs] : n \in 0..MaxMappings}

\* mapping_config.get(f"{os_type_lower}_target") (addon.py 537-539): the key
\* is windows_target, linux_target or darwin_target, and a mapping has no
\* darwin_target.
MonitorTarget(m) == IF platform = "Darwin" THEN "" ELSE m.target

\* The monitor's test of the mapping targets with the basic mount present
\* (addon.py 529-554): false at the first mapping without a target or whose
\* target path does not exist, true when no mapping is configured.
ConfiguredTargetsAccessible(ms) ==
    \A k \in 1..Len(ms) : MonitorTarget(ms[k]) # "" /\ mexists

\* self._last_known_status of a cycle with the process running and the
\* mount present (addon.py 613-624)
CycleStatus(ms) ==
    IF ~ConfiguredTargetsAccessible(ms)
    THEN "Connection Issue"
    ELSE "Connected"

\* "if not source_path or not target" (gdrive_manager.py 685), negated
ValidMapping(m) == m.source # "" /\ m.target # ""

ValidOnly(ms) == SelectSeq(ms, ValidMapping)

\* GDriveManager._process_mapping(ms[k]): an invalid mapping is logged and
\* gives False before anything is looked up or created; for a valid one the
\* source is resolved and the platform mapping attempted, which succeeds
\* or not (ok).
ProcessMapping(ms, k, ok) ==
    IF ~ValidMapping(ms[k])
    THEN [ret |-> FALSE, touched |-> FALSE]
    ELSE [ret |-> ok, touched |-> TRUE]

InitMgr ==
    /\ platform \in {"Linux", "Darwin", "Windows"}
    /\ MapIdle
    /\ MonIdle
    /\ ResIdle
    /\ LocIdle
    /\ JrnIdle
    /\ WrkIdle
    /\ mcfg \in MappingLists
    /\ mexists \in BOOLEAN
    /\ mres = NoMres

\* The part of a monitor cycle that looks at the configured mappings, the
\* client being installed and running and the basic mount present.
MonitorCheckTargets ==
    /\ mres' = [NoMres EXCEPT !.op = "cycle",
                              !.value = ConfiguredTargetsAccessible(mcfg),
                              !.status = CycleStatus(mcfg)]
    /\ UNCHANGED <<mcfg, mexists, mapVars, monVars, resVars, locVars,
                   jrnVars, wrkVars>>

\* GDriveManager.ensure_consistent_paths with a user logged in and shared
\* drives found: False without mappings, else every mapping is processed
\* and the result is the conjunction.
EnsureConsistentPaths(ok) ==
    LET r == [k \in 1..Len(mcfg) |-> ProcessMapping(mcfg, k, ok[k])] IN
    /\ mres' = [NoMres EXCEPT
                  !.op = "reconcile",
                  !.value = (mcfg # <<>> /\ \A k \in 1..Len(mcfg) : r[k].ret),
                  !.touched = {k \in 1..Len(mcfg) : r[k].touched}]
    /\ UNCHANGED <<mcfg, mexists, mapVars, monVars, resVars, locVars,
                   jrnVars, wrkVars>>

\* C27: a configured mapping whose source path or whose target for the
\* platform is empty is skipped: reconcile makes no change for it, and the
\* status the monitor cycle reports is the one it would report without
\* that mapping.
C27_InvalidMappingSkipped ==
    /\ mres.op = "reconcile"
          => \A k \in 1..Len(mcfg) :
                ~ValidMapping(mcfg[k]) => k \notin mres.touched
    /\ mres.op = "cycle" => mres.status = CycleStatus(ValidOnly(mcfg))

\* What can go wrong in the OS call under a probe: the executable it runs
\* (pgrep, tasklist) is not installed, may not be executed, or no process
\* can be started at all.
OsFailures == {"none", "missing_executable", "permission_error", "os_error"}

\* The exception the failing call raises.  subprocess.run on an argument
\* list raises the OSError of the failed exec; check_output(..., shell=True)
\* starts the shell, which reports a command it cannot run by its exit
\* code, and check_output turns that into CalledProcessError.
RaisedBy(failure, shell) ==
    IF failure = "os_error" THEN "OSError"
    ELSE IF shell THEN "CalledProcessError"
    ELSE IF failure = "missing_executable" THEN "FileNotFoundError"
    ELSE "PermissionError"

\* "except subprocess.SubprocessError"
IsSubprocessError(e) == e \in {"CalledProcessError", "TimeoutExpired"}

Returned(v) == [raised |-> FALSE, value |-> v]

Propagated == [raised |-> TRUE, value |-> FALSE]

\* GDriveManager.is_googledrive_installed: os.path.exists only, which
\* answers False when the stat fails
ManagerIsInstalled(failure, found) == Returned(failure = "none" /\ found)

\* GDriveManager.is_googledrive_running: tasklist through the shell on
\* Windows, pgrep on macOS and Linux, each under
\* "except subprocess.SubprocessError"
ManagerIsRunning(failure, found) ==
    IF failure = "none" THEN Returned(found)
    ELSE IF IsSubprocessError(RaisedBy(failure, platform = "Windows"))
    THEN Returned(FALSE)
    ELSE Propagated

\* GDriveManager.is_user_logged_in: os.path.exists and, on Windows, a
\* listdir under "except Exception"; no test on Linux
ManagerIsUserLoggedIn(failure, found) ==
    IF platform = "Linux" THEN Returned(FALSE)
    ELSE Returned(failure = "none" /\ found)

\* lib.run_process: subprocess.run under "except subprocess.SubprocessError"
\* - "result", None, or the exception that passes through
RunProcess(failure) ==
    IF failure = "none" THEN [raised |-> "-", result |-> "result"]
    ELSE IF IsSubprocessError(RaisedBy(failure, FALSE))
    THEN [raised |-> "-", result |-> "None"]
    ELSE [raised |-> RaisedBy(failure, FALSE), result |-> "-"]

\* GDriveLinuxPlatform.is_googledrive_running: the run_process calls and
\* the mount fallback inside "try ... except Exception: return False"
LinuxHandlerIsRunning(failure, found) ==
    IF RunProcess(failure).raised # "-" THEN Returned(FALSE)
    ELSE Returned(RunProcess(failure).result = "result" /\ found)

Probes ==
    {"is_googledrive_installed", "is_googledrive_running",
     "is_user_logged_in", "linux.is_googledrive_running"}

ProbeResult(probe, failure, found) ==
    CASE probe = "is_googledrive_installed" ->
            ManagerIsInstalled(failure, found)
      [] probe = "is_googledrive_running" ->
            ManagerIsRunning(failure, found)
      [] probe = "is_user_logged_in" ->
            ManagerIsUserLoggedIn(failure, found)
      [] probe = "linux.is_googledrive_running" ->
            LinuxHandlerIsRunning(failure, found)

\* One call of a probe; found is what the OS call would answer if it went
\* through.
ProbeCall(probe, failure, found) ==
    /\ probe = "linux.is_googledrive_running" => platform = "Linux"
    /\ mres' = [NoMres EXCEPT
                  !.op = probe,
                  !.failure = failure,
                  !.raised = ProbeResult(probe, failure, found).raised,
                  !.value = ProbeResult(probe, failure, found).value]
    /\ UNCHANGED <<mcfg, mexists, mapVars, monVars, resVars, locVars,
                   jrnVars, wrkVars>>

NextMgr ==
    \/ MonitorCheckTargets
    \/ \E ok \in [1..Len(mcfg) -> BOOLEAN] : EnsureConsistentPaths(ok)
    \/ \E probe \in Probes, failure \in OsFailures, found \in BOOLEAN :
          ProbeCall(probe, failure, found)

SpecMgr == InitMgr /\ [][NextMgr]_vars

\* C28: is_googledrive_installed, is_googledrive_running and
\* is_user_logged_in return False when the OS call under them fails, and
\* pass no exception on to the caller.
C28_ProbesNeverRaise ==
    (mres.op \in Probes /\ mres.failure # "none")
    => (~mres.raised /\ ~mres.value)

---------------------------------------------------------------------------
(* _start_monitoring and _stop_monitoring called in any order (SpecWrk).  *)

\* Thread.is_alive()
IsAlive(t) == wpc[t] \in {"test", "body", "sleep"}

InitWrk ==
    /\ platform \in {"Linux", "Darwin", "Windows"}
    /\ MapIdle
    /\ MonIdle
    /\ ResIdle
    /\ LocIdle
    /\ JrnIdle
    /\ MgrIdle
    /\ WrkIdle

\* _start_monitoring: return when the thread the reference names is alive,
\* else raise the flag and start a new thread.
StartMonitoring ==
    /\ wmain = "idle"
    /\ IF wref # 0 /\ IsAlive(wref)
       THEN UNCHANGED <<wflag, wref, wpc>>
       ELSE \E t \in Threads :
              /\ wpc[t] = "unborn"
              /\ \A u \in Threads : u < t => wpc[u] # "unborn"
              /\ wflag' = TRUE
              /\ wref' = t
              /\ wpc' = [wpc EXCEPT ![t] = "test"]
    /\ UNCHANGED <<wmain, mapVars, monVars, resVars, locVars, jrnVars,
                   mgrVars>>

\* _stop_monitoring up to join(timeout=5); with no live thread it runs to
\* its end.
StopMonitoring ==
    /\ wmain = "idle"
    /\ IF wref # 0 /\ IsAlive(wref)
       THEN /\ wmain' = "joining"
            /\ UNCHANGED <<wflag, wref>>
       ELSE /\ wref' = 0
            /\ wflag' = FALSE
            /\ UNCHANGED wmain
    /\ UNCHANGED <<wpc, mapVars, monVars, resVars, locVars, jrnVars, mgrVars>>

\* join(timeout=5) returns, the thread ended or not; the reference and
\* then the flag are cleared.
StopJoinReturns ==
    /\ wmain = "joining"
    /\ wref' = 0
    /\ wflag' = FALSE
    /\ wmain' = "idle"
    /\ UNCHANGED <<wpc, mapVars, monVars, resVars, locVars, jrnVars, mgrVars>>

\* "while self._monitoring:" in thread t
WorkerTest(t) ==
    /\ wpc[t] = "test"
    /\ wpc' = [wpc EXCEPT ![t] = IF wflag THEN "body" ELSE "done"]
    /\ UNCHANGED <<wflag, wref, wmain, mapVars, monVars, resVars, locVars,
                   jrnVars, mgrVars>>

\* the cycle of thread t, from the probes to the sleep loop
WorkerCycle(t) ==
    /\ wpc[t] = "body"
    /\ wpc' = [wpc EXCEPT ![t] = "sleep"]
    /\ UNCHANGED <<wflag, wref, wmain, mapVars, monVars, resVars, locVars,
                   jrnVars, mgrVars>>

\* the sleep loop of thread t ends: the interval is over or the flag was
\* found down
WorkerSleepEnds(t) ==
    /\ wpc[t] = "sleep"
    /\ wpc' = [wpc EXCEPT ![t] = "test"]
    /\ UNCHANGED <<wflag, wref, wmain, mapVars, monVars, resVars, locVars,
                   jrnVars, mgrVars>>

NextWrk ==
    \/ StartMonitoring
    \/ StopMonitoring
    \/ StopJoinReturns
    \/ \E t \in Threads : WorkerTest(t)
    \/ \E t \in Threads : WorkerCycle(t)
    \/ \E t \in Threads : WorkerSleepEnds(t)

SpecWrk == InitWrk /\ [][NextWrk]_vars

\* C37: whatever the order of the _start_monitoring and _stop_monitoring
\* calls, at most one thread is executing the monitor loop at any time: no
\* two threads are inside a monitor cycle together, and a thread that
\* enters a cycle is the one _monitor_thread names.
C37_AtMostOneMonitorWorker ==
    /\ [](Cardinality({t \in Threads : wpc[t] = "body"}) <= 1)
    /\ [][\A t \in Threads :
            (wpc[t] = "test" /\ wpc'[t] = "body") => wref = t]_vars

=============================================================================
